---- MODULE Spec2Model ----
(***************************************************************************)
(* hadalized: palettes of named colours compiled into theme files.         *)
(*                                                                         *)
(* Several state machines share this module:                                 *)
(*   Spec        the Palette objects (src/hadalized/palette.py) with the   *)
(*               colour handlers of src/hadalized/color.py                 *)
(*   SpecWriter  the ThemeWriter (src/hadalized/writer.py) on top of the   *)
(*               digest cache (src/hadalized/cache.py) and the build tree  *)
(*   SpecCache   the digest cache itself (src/hadalized/cache.py): its     *)
(*               connection, its table and the with-statements around it   *)
(*   SpecConfig  the palette lookup of a Config (src/hadalized/config.py)  *)
(*   SpecHash    the bytes the digest is computed from                     *)
(*               (src/hadalized/writer.py, src/hadalized/base.py)          *)
(*   SpecCli     the command "config init" (src/hadalized/cli/main.py)     *)
(*                                                                         *)
(* The colour library (coloraide) is abstracted: a colour is its OKLCH     *)
(* chroma level, lightness and hue held fixed; a gamut is the largest      *)
(* chroma level it can show; fitting reduces the chroma to that level.     *)
(***************************************************************************)
EXTENDS Integers, Sequences, FiniteSets, TLC

VARIABLES heap, origin, last,
          disk, digests, built, templates, palettes, opt, builds, wlast, out,
          cfile, cdir, cmem, cconn, cmode, csess, cthrown, cout, clatest, clast,
          gpalettes, glu, glast,
          htemplate, hname, hlast,
          ifile, ilast

pvars == <<heap, origin, last>>
wvars == <<disk, digests, built, templates, palettes, opt, builds, wlast, out>>
cvars == <<cfile, cdir, cmem, cconn, cmode, csess, cthrown, cout, clatest, clast>>
gvars == <<gpalettes, glu, glast>>
hvars == <<htemplate, hname, hlast>>
ivars == <<ifile, ilast>>
evars == <<gvars, hvars, ivars>>
vars == <<heap, origin, last, disk, digests, built, templates, palettes, opt, builds, wlast, out,
          cfile, cdir, cmem, cconn, cmode, csess, cthrown, cout, clatest, clast,
          gpalettes, glu, glast,
          htemplate, hname, hlast,
          ifile, ilast>>

(***************************************************************************)
(* Bounds of the model.                                                    *)
(***************************************************************************)
\* Palette objects that may exist at once (the initial one included).
MaxObjs == 3

(***************************************************************************)
(* Colour strings and the ColorValue engine (color.py).                    *)
(***************************************************************************)
Gamuts == {"srgb", "display-p3"}

\* gamut=None of Palette.parse: "use the palette's declared gamut".
NoGamut == "None"

\* ColorFieldType: the representation a slot holds / a directive asks for.
ColorFieldType == {"info", "hex", "oklch", "css"}

\* The kind for which an extractor is the identity function.
identity == "info"

\* Largest chroma level a gamut can show at the fixed lightness and hue.
GamutMax(g) == IF g = "srgb" THEN 2 ELSE 3

\* The probe chroma of _max_oklch_chroma, above every gamut's boundary.
ProbeChroma == 4

Min(a, b) == IF a <= b THEN a ELSE b

\* A colour string: the notation it is written in, the space its
\* coordinates are in, and the colour it denotes.
OklchStr(c) == [fmt |-> "oklch", space |-> "oklch", c |-> c]
HexStr(c) == [fmt |-> "hex", space |-> "srgb", c |-> c]
CssStr(g, c) == [fmt |-> "css", space |-> g, c |-> c]
BadStr == [fmt |-> "bad", space |-> "none", c |-> 0]

\* Parser._fit: chroma reduced until the colour lies in the gamut.
Fit(c, g) == Min(c, GamutMax(g))

\* Parser._to_hex: the coordinates of a colour that is not in srgb are
\* read as srgb coordinates, which scales the chroma to the srgb boundary.
ToHex(c, g) == IF g = "srgb" THEN HexStr(c) ELSE HexStr((c * GamutMax("srgb")) \div GamutMax(g))

\* Parser._max_oklch_chroma: the probe colour fitted to the gamut.
MaxOklchChroma(g) == Fit(ProbeChroma, g)

\* ColorBase(val) raises ValueError on a string of no known notation.
Unparseable(s) == s.fmt = "bad"

\* Parser.__call__ on a string: the ColorInfo record.
ParseStr(s, g) ==
    [raw |-> s,
     gamut |-> g,
     raw_oklch |-> OklchStr(s.c),
     oklch |-> OklchStr(Fit(s.c, g)),
     css |-> CssStr(g, Fit(s.c, g)),
     hex |-> ToHex(Fit(s.c, g), g),
     is_in_gamut |-> s.c <= GamutMax(g),
     max_oklch_chroma |-> MaxOklchChroma(g)]

\* A slot value (ColorField = ColorInfo | str).
StrVal(s) == [tag |-> "str", s |-> s, info |-> ParseStr(BadStr, "srgb")]
InfoVal(i) == [tag |-> "info", s |-> BadStr, info |-> i]
IsInfo(v) == v.tag = "info"

\* The two handler kinds.
Parser(g) == [h |-> "parser", gamut |-> g, field |-> "info"]
Extractor(k) == [h |-> "extractor", gamut |-> "srgb", field |-> k]

\* Parser.__call__: a ColorInfo passes through, a string is parsed.
ParserCall(g, v) == IF IsInfo(v) THEN v ELSE InfoVal(ParseStr(v.s, g))
ParserRaises_Never(g, v) == FALSE
\* ColorBase(val) raises ValueError on an unparseable string.
ParserRaises(g, v) == ~IsInfo(v) /\ Unparseable(v.s)

\* Extractor.__call__: TypeError unless the value is a ColorInfo.
ExtractorRaises_IdentityPasses(k, v) == k # identity /\ ~IsInfo(v)
ExtractorRaises(k, v) == ~IsInfo(v)
ExtractField(i, k) ==
    CASE k = "hex" -> i.hex
      [] k = "oklch" -> i.oklch
      [] OTHER -> i.css
ExtractorCall(k, v) == IF k = identity THEN v ELSE StrVal(ExtractField(v.info, k))

HandlerRaises(h, v) ==
    IF h.h = "parser" THEN ParserRaises(h.gamut, v) ELSE ExtractorRaises(h.field, v)
HandlerCall(h, v) ==
    IF h.h = "parser" THEN ParserCall(h.gamut, v) ELSE ExtractorCall(h.field, v)
HandlerError(h) == IF h.h = "parser" THEN "ValueError" ELSE "TypeError"

\* ColorMap.map: the handler applied to each slot; _field_type set from it.
ColorMapMap(cm, h) == [s \in DOMAIN cm |-> HandlerCall(h, cm[s])]
ColorMapMapRaises(cm, h) == \E s \in DOMAIN cm : HandlerRaises(h, cm[s])
MapFieldType_Info(h) == "info"
MapFieldType(h) == IF h.h = "parser" THEN "info" ELSE h.field

(***************************************************************************)
(* Palette objects (palette.py).                                           *)
(***************************************************************************)
Maps == {"hue", "base"}
SlotsOf(m) == IF m = "hue" THEN {"red", "blue"} ELSE {"bg"}

\* The kinds the projection memo may hold.
MemoKinds == ColorFieldType \ {identity}

\* Palette._cache default: an empty dict, copied for every instance.
EmptyCache == [k \in MemoKinds |-> 0]

\* A Palette as constructed from configuration literals.
NewPalette(gamut, red, blue, bg) ==
    [name |-> "hadalized",
     gamut |-> gamut,
     colors |-> [m \in Maps |-> IF m = "hue"
                                 THEN [s \in SlotsOf("hue") |-> IF s = "red" THEN StrVal(red) ELSE StrVal(blue)]
                                 ELSE [s \in SlotsOf("base") |-> StrVal(bg)]],
     ftype |-> [m \in Maps |-> "none"],
     is_parsed |-> FALSE,
     cache |-> EmptyCache]

\* Palette.map: a new Palette, metadata copied, each ColorMap mapped;
\* private attributes take their defaults.
PaletteMap(p, h) ==
    [name |-> p.name,
     gamut |-> p.gamut,
     colors |-> [m \in Maps |-> ColorMapMap(p.colors[m], h)],
     ftype |-> [m \in Maps |-> MapFieldType(h)],
     is_parsed |-> FALSE,
     cache |-> EmptyCache]
PaletteMapRaises(p, h) == \E m \in Maps : ColorMapMapRaises(p.colors[m], h)

\* The public value of a Palette: its fields without private attributes.
Value(p) == [name |-> p.name, gamut |-> p.gamut, colors |-> p.colors]

\* The record of the last call.
Call(op, recv, arg, res, err, pre) ==
    [op |-> op, recv |-> recv, arg |-> arg, res |-> res, err |-> err, pre |-> pre]

(***************************************************************************)
(* Palette operations.  heap[i] is the Palette object with identity i;     *)
(* origin[i] records the call that constructed it.                         *)
(***************************************************************************)
Objs == 1..Len(heap)

\* Palette.parse: gamut = gamut or self.gamut
EffectiveGamut(p, g) == IF g = NoGamut THEN p.gamut ELSE g

ParseReturnsSelf_Never(p, g) == FALSE
\* Palette.parse: the receiver is returned when it is parsed and the
\* requested gamut is its declared gamut.
ParseReturnsSelf(p, g) == p.is_parsed /\ g = p.gamut

ParseMarked_Receiver(r, new) == r
\* Palette.parse: out._is_parsed = True, out the object built by map.
ParseMarked(r, new) == new

ToRaises_Never(p) == FALSE
ToRaises_ProjectedOnly(p) == ~p.is_parsed /\ p.ftype["hue"] # "none"
\* Palette.to: TypeError on an instance that is not parsed.
ToRaises(p) == ~p.is_parsed

MemoGet_Shared(h, r, k) ==
    IF \E i \in 1..Len(h) : h[i].cache[k] # 0
    THEN h[CHOOSE i \in 1..Len(h) : h[i].cache[k] # 0].cache[k]
    ELSE 0
\* Palette.to: self._cache.get(color_type), 0 standing for None.
MemoGet(h, r, k) == h[r].cache[k]

\* Palette.to: self._cache[color_type] = pal
MemoKey(k) == k

\* Palette.parse(gamut)
Parse(r, g) ==
    LET p == heap[r]
        eg == EffectiveGamut(p, g)
        new == Len(heap) + 1
    IN  /\ UNCHANGED <<wvars, cvars, evars>>
        /\ IF ParseReturnsSelf(p, eg)
           THEN /\ last' = Call("parse", r, g, r, "none", Len(heap))
                /\ UNCHANGED <<heap, origin>>
           ELSE IF PaletteMapRaises(p, Parser(eg))
           THEN /\ last' = Call("parse", r, g, 0, HandlerError(Parser(eg)), Len(heap))
                /\ UNCHANGED <<heap, origin>>
           ELSE /\ Len(heap) < MaxObjs
                /\ LET h1 == Append(heap, PaletteMap(p, Parser(eg)))
                   IN  heap' = [h1 EXCEPT ![ParseMarked(r, new)].is_parsed = TRUE]
                /\ origin' = Append(origin, [op |-> "parse", recv |-> r, arg |-> eg])
                /\ last' = Call("parse", r, g, new, "none", Len(heap))

\* Palette.to(color_type)
To(r, k) ==
    LET p == heap[r]
        new == Len(heap) + 1
    IN  /\ UNCHANGED <<wvars, cvars, evars>>
        /\ IF ToRaises(p)
           THEN /\ last' = Call("to", r, k, 0, "TypeError", Len(heap))
                /\ UNCHANGED <<heap, origin>>
           ELSE IF k = identity
           THEN /\ last' = Call("to", r, k, r, "none", Len(heap))
                /\ UNCHANGED <<heap, origin>>
           ELSE IF MemoGet(heap, r, k) # 0
           THEN /\ last' = Call("to", r, k, MemoGet(heap, r, k), "none", Len(heap))
                /\ UNCHANGED <<heap, origin>>
           ELSE IF PaletteMapRaises(p, Extractor(k))
           THEN /\ last' = Call("to", r, k, 0, HandlerError(Extractor(k)), Len(heap))
                /\ UNCHANGED <<heap, origin>>
           ELSE /\ Len(heap) < MaxObjs
                /\ LET h1 == Append(heap, PaletteMap(p, Extractor(k)))
                   IN  heap' = [h1 EXCEPT ![r].cache[MemoKey(k)] = new]
                /\ origin' = Append(origin, [op |-> "to", recv |-> r, arg |-> k])
                /\ last' = Call("to", r, k, new, "none", Len(heap))

\* The handlers Palette.map is called with.
Handlers == {Parser("display-p3"), Extractor("hex"), Extractor(identity)}
HandlerName(h) == IF h.h = "parser" THEN h.gamut ELSE h.field

\* Palette.map(handler)
Map(r, h) ==
    LET p == heap[r]
        new == Len(heap) + 1
    IN  /\ UNCHANGED <<wvars, cvars, evars>>
        /\ IF PaletteMapRaises(p, h)
           THEN /\ last' = Call("map", r, HandlerName(h), 0, HandlerError(h), Len(heap))
                /\ UNCHANGED <<heap, origin>>
           ELSE /\ Len(heap) < MaxObjs
                /\ heap' = Append(heap, PaletteMap(p, h))
                /\ origin' = Append(origin, [op |-> "map:" \o h.h, recv |-> r, arg |-> HandlerName(h)])
                /\ last' = Call("map", r, HandlerName(h), new, "none", Len(heap))

\* The literals the configured palettes are written with.
RedLiterals == {OklchStr(4), HexStr(1)}
BlueLiterals == {OklchStr(3), BadStr}
BgLiterals == {OklchStr(0)}

\* A palette as the configuration hands it over: as written, or already
\* parsed against its declared gamut when Options.parse is set.
Loaded(p, parse) ==
    IF parse THEN [PaletteMap(p, Parser(p.gamut)) EXCEPT !.is_parsed = TRUE] ELSE p

PaletteInit ==
    /\ \E g \in Gamuts, red \in RedLiterals, blue \in BlueLiterals, bg \in BgLiterals, parse \in BOOLEAN :
           /\ parse => ~PaletteMapRaises(NewPalette(g, red, blue, bg), Parser(g))
           /\ heap = <<Loaded(NewPalette(g, red, blue, bg), parse)>>
           /\ origin = <<[op |-> IF parse THEN "parse" ELSE "init", recv |-> 0, arg |-> IF parse THEN g ELSE "none"]>>
    /\ last = Call("init", 0, "none", 1, "none", 0)

PaletteNext ==
    \/ \E r \in Objs, g \in Gamuts \cup {NoGamut} : Parse(r, g)
    \/ \E r \in Objs, k \in ColorFieldType : To(r, k)
    \/ \E r \in Objs, h \in Handlers : Map(r, h)

(***************************************************************************)
(* Build configuration (config.py) and options (options.py).               *)
(***************************************************************************)
\* ContextType
ContextTypes == {"palette", "full"}

\* Path(name).suffix of the template names in use.
TemplateExt(tname) == IF tname = "neovim.lua" THEN "lua" ELSE "toml"

BuildConfig(name, subdir, template, filename, context_type, color_type) ==
    [name |-> name, subdir |-> subdir, template |-> template, filename |-> filename,
     context_type |-> context_type, color_type |-> color_type]

\* BuildConfig.model_post_init: the filename pattern, with the extension
\* taken from the template; "{name}" stands for "{context.name}".
FnamePattern(b) ==
    IF b.filename # "" THEN <<b.filename>>
    ELSE IF b.context_type = "palette" THEN <<"{name}", ".", TemplateExt(b.template)>>
    ELSE <<b.template>>

\* str.format(context=context) on the pattern.
RECURSIVE FormatPattern(_, _)
FormatPattern(pat, cname) ==
    IF pat = <<>> THEN ""
    ELSE (IF Head(pat) = "{name}" THEN cname ELSE Head(pat)) \o FormatPattern(Tail(pat), cname)

\* BuildConfig.format_path: (subdir or name) / formatted file name,
\* relative to the build directory.
FormatPath(b, cname) == <<IF b.subdir = "" THEN b.name ELSE b.subdir, FormatPattern(FnamePattern(b), cname)>>

\* The configured palettes, in declaration order.
PaletteKeys == <<"dark", "day">>
PaletteName(k) == IF k = "dark" THEN "hadalized" ELSE "hadalized-day"

\* The build directives of a configuration, in declaration order.
BuildSets ==
    { <<BuildConfig("neovim", "", "neovim.lua", "", "palette", "hex")>>,
      <<BuildConfig("starship", "", "starship.toml", "", "full", "hex")>>,
      <<BuildConfig("neovim", "", "neovim.lua", "", "palette", "hex"),
        BuildConfig("neovim-css", "neovim", "neovim.lua", "", "palette", "css")>>,
      <<BuildConfig("wezterm", "", "wezterm.toml", "wezterm.toml", "palette", "info")>>,
      <<BuildConfig("custom", "", "template.txt", "", "full", "hex")>> }

TemplateNames == {"neovim.lua", "starship.toml", "wezterm.toml", "template.txt"}

\* No template file of that name.
NoTemplate == <<>>

\* Source bytes a file of the template directory may hold; <<"u">> is a
\* template that refers to a variable the context does not define.
TemplateSources == {<<"b">>, <<"u">>}

\* The templates bundled with the package: every builtin template, and
\* none named "template.txt".
PackageTemplates == [n \in TemplateNames |-> IF n = "template.txt" THEN NoTemplate ELSE <<"a">>]

\* What the file of a name in the template directory may hold: anything
\* for a template of the user's own, a rendering variant for an override
\* of a bundled template.
UserSources(n) == IF PackageTemplates[n] = NoTemplate THEN TemplateSources ELSE {<<"b">>}

\* Literals the colour slot of a configured palette may hold.
PaletteLiterals == {OklchStr(1), OklchStr(4)}

\* Options: the flags the writer reads.  output_dir: whether an output
\* directory is given; prefix has an effect only with one.  The copy step
\* reads neither force nor no_cache: an output directory is combined with
\* their defaults only.  The template lookup reads none of the other
\* flags: no_templates and no_config are combined with their defaults.
\* verbose, which only adds log lines, is combined with the defaults too.
Options ==
    {o \in [force : BOOLEAN, no_cache : BOOLEAN, dry_run : BOOLEAN,
            output_dir : BOOLEAN, prefix : BOOLEAN,
            no_templates : BOOLEAN, no_config : BOOLEAN, verbose : BOOLEAN] :
        /\ o.prefix => o.output_dir
        /\ o.output_dir => (~o.force /\ ~o.no_cache)
        /\ (o.no_templates \/ o.no_config) =>
               (~o.force /\ ~o.no_cache /\ ~o.dry_run /\ ~o.output_dir)
        /\ ~(o.no_templates /\ o.no_config)
        /\ o.verbose => (~o.force /\ ~o.no_cache /\ ~o.dry_run /\ ~o.output_dir
                            /\ ~o.no_templates /\ ~o.no_config)}
DefaultOptions ==
    [force |-> FALSE, no_cache |-> FALSE, dry_run |-> FALSE, output_dir |-> FALSE, prefix |-> FALSE,
     no_templates |-> FALSE, no_config |-> FALSE, verbose |-> FALSE]
\* Options.use_cache
UseCache(o) == ~o.no_cache

(***************************************************************************)
(* Digests (writer.py).                                                    *)
(***************************************************************************)
\* Config.parse_palettes then Palette.to(color_type) on one palette: the
\* slot as the template sees it.
Project(pal, k) == ExtractorCall(k, ParserCall(pal.gamut, StrVal(pal.lit)))

\* BaseNode.encode of a projected palette: its JSON dump.
EncodePalette(pals, key, k) ==
    <<"{", PaletteName(key), pals[key].gamut, ToString(Project(pals[key], k)), "}">>

RECURSIVE EncodePalettes(_, _, _)
EncodePalettes(pals, keys, k) ==
    IF keys = <<>> THEN <<>>
    ELSE EncodePalette(pals, Head(keys), k) \o EncodePalettes(pals, Tail(keys), k)

\* BaseNode.encode of a Config: the JSON dump of its fields, verbose the
\* first of them, the palettes projected.
EncodeConfig(cfg, pals, k) ==
    <<"{", "config", ToString(cfg.verbose)>> \o EncodePalettes(pals, PaletteKeys, k) \o <<"}">>

\* BaseNode.encode of the context of a directive: one projected palette,
\* or the whole configuration with every palette projected.
EncodeContext(cfg, pals, ctx, k) ==
    IF ctx = "config"
    THEN EncodeConfig(cfg, pals, k)
    ELSE EncodePalette(pals, ctx, k)

\* ThemeWriter.get_template: the package templates alone with
\* no_templates or no_config, otherwise the template directory first and
\* the package templates when it has no file of that name.  looked lists
\* the loaders asked, src is NoTemplate when the last of them raised
\* TemplateNotFound.
GetTemplate_PackageFirst(o, tpls, tname) ==
    IF PackageTemplates[tname] # NoTemplate \/ o.no_templates \/ o.no_config
    THEN [src |-> PackageTemplates[tname], looked |-> <<"package">>]
    ELSE [src |-> tpls[tname], looked |-> <<"package", "fs">>]
GetTemplate(o, tpls, tname) ==
    IF o.no_templates \/ o.no_config
    THEN [src |-> PackageTemplates[tname], looked |-> <<"package">>]
    ELSE IF tpls[tname] # NoTemplate
    THEN [src |-> tpls[tname], looked |-> <<"fs">>]
    ELSE [src |-> PackageTemplates[tname], looked |-> <<"fs", "package">>]

\* _encode of a Template: the bytes of its source file.
EncodeTemplate(o, tpls, tname) == GetTemplate(o, tpls, tname).src

\* The separator b":::" of _hash.
Separator == <<":", ":", ":">>

Hash_TemplateOnly(tbytes, cbytes) == tbytes \o Separator
\* _hash: blake2b over template bytes, separator, context bytes; the hash
\* function is taken to be injective on its input.
Hash(tbytes, cbytes) == tbytes \o Separator \o cbytes

\* Template.render(context=context): the text rendered.
Render(tbytes, cbytes) == [template |-> tbytes, context |-> cbytes]

\* Template.render under StrictUndefined raises UndefinedError for a
\* template that refers to an undefined variable.
RenderRaises(tbytes) == tbytes = <<"u">>

\* The build tree: a file with its text, or no file.
File(text) == [exists |-> TRUE, text |-> text]
NoFile == [exists |-> FALSE, text |-> Render(<<>>, <<>>)]

\* Cache.get of a path without a row.
None == <<>>

\* The (template bytes, context bytes) a stored digest was computed from.
NoBuild == [t |-> <<>>, c |-> <<>>]

(***************************************************************************)
(* ThemeWriter (writer.py).  A step takes and returns                      *)
(*   [disk, digests, built, written, log]                                  *)
(* written is files_built; log records each build_file call.               *)
(***************************************************************************)
\* The contexts of a directive, in order (ThemeWriter.build).
Contexts(b) == IF b.context_type = "palette" THEN PaletteKeys ELSE <<"config">>
ContextName(ctx) == IF ctx = "config" THEN "" ELSE PaletteName(ctx)

SeqToSet(s) == {s[i] : i \in 1..Len(s)}

\* Every output path a configuration in BuildSets can name.
Paths ==
    UNION { UNION { {FormatPath(bs[i], ContextName(c)) : c \in SeqToSet(Contexts(bs[i]))}
                    : i \in 1..Len(bs) } : bs \in BuildSets }

Skip_IgnoresForce(o, exists, stored, digest) == ~o.no_cache /\ exists /\ stored = digest
Skip_NoExists(o, exists, stored, digest) == ~o.force /\ ~o.no_cache /\ stored = digest
Skip_NoDigest(o, exists, stored, digest) == ~o.force /\ ~o.no_cache /\ exists /\ stored # None
\* ThemeWriter._skip
Skip(o, exists, stored, digest) == ~o.force /\ ~o.no_cache /\ exists /\ stored = digest

\* Cache.get
CacheGet(d, path) == d[path]
CacheAdd_Dropped(d, path, digest) == d
\* Cache.add: insert, or update the digest of an existing row.
CacheAdd(d, path, digest) == [d EXCEPT ![path] = digest]

Writes_DryToo(o, skip) == ~skip
\* build_file writes the rendered text unless it skips or runs dry.
Writes(o, skip) == ~skip /\ ~o.dry_run

Adds_DryToo(o, skip) == ~skip /\ UseCache(o)
\* build_file stores the digest unless it skips, runs dry or without cache.
Adds(o, skip) == ~skip /\ UseCache(o) /\ ~o.dry_run

Copies_DryToo(o) == o.output_dir
\* copy_file copies when an output directory is given, unless it runs dry.
Copies(o) == o.output_dir /\ ~o.dry_run

Reads_NoCacheToo(o, exists) == ~o.force /\ exists
\* Whether _skip reaches cache.get: the conjunction is evaluated left to
\* right and stops at the first false operand.
Reads(o, exists) == ~o.force /\ ~o.no_cache /\ exists

\* One entry of the record of calls a writer makes.
Op(op, path) == [op |-> op, path |-> path]
RECURSIVE Lookups(_, _)
Lookups(looked, tname) ==
    IF looked = <<>> THEN <<>>
    ELSE <<Op(Head(looked), <<"", tname>>)>> \o Lookups(Tail(looked), tname)

\* ThemeWriter.build_file.  After an exception nothing more is executed;
\* fault "OSError" makes the write of the file raise before the file is
\* opened.
BuildFile(st, b, ctx) ==
    LET path == FormatPath(b, ContextName(ctx))
        tpl == GetTemplate(st.opt, st.templates, b.template)
        tb == tpl.src
        cb == EncodeContext(st.opt, st.palettes, ctx, b.color_type)
        digest == Hash(tb, cb)
        reads == Reads(st.opt, st.disk[path].exists)
        skip == Skip(st.opt, st.disk[path].exists, CacheGet(st.digests, path), digest)
        text == Render(tb, cb)
        write == Writes(st.opt, skip)
        add == Adds(st.opt, skip)
        looked == st.ops \o Lookups(tpl.looked, b.template)
        checked == looked \o (IF reads THEN <<Op("get", path)>> ELSE <<>>)
        rendered == checked \o <<Op("render", path)>>
    IN  IF st.raised # "none" THEN st
        ELSE IF tb = NoTemplate THEN [st EXCEPT !.raised = "TemplateNotFound", !.ops = looked]
        ELSE IF skip THEN [st EXCEPT !.ops = checked]
        ELSE IF RenderRaises(tb) THEN [st EXCEPT !.raised = "UndefinedError", !.ops = rendered]
        ELSE IF write /\ st.fault = "OSError" THEN [st EXCEPT !.raised = "OSError", !.ops = rendered]
        ELSE [st EXCEPT
           !.disk = IF write THEN [st.disk EXCEPT ![path] = File(text)] ELSE st.disk,
           !.digests = IF add THEN CacheAdd(st.digests, path, digest) ELSE st.digests,
           !.built = IF add THEN [st.built EXCEPT ![path] = [t |-> tb, c |-> cb]] ELSE st.built,
           !.written = Append(st.written, path),
           !.wrote = IF write THEN Append(st.wrote, path) ELSE st.wrote,
           !.ops = rendered \o (IF write THEN <<Op("write", path)>> ELSE <<>>)
                            \o (IF add THEN <<Op("add", path)>> ELSE <<>>)]

CopyPath_Flat(o, path) == <<"", path[2]>>
\* The path a built file is copied to: the output directory, under the
\* name of the build path's parent directory when prefix is set.
CopyPath(o, path) == IF o.prefix THEN path ELSE <<"", path[2]>>
OutPaths == Paths \cup {<<"", p[2]>> : p \in Paths}

\* ThemeWriter.copy_file
CopyFile(st, path) ==
    IF st.raised = "none" /\ Copies(st.opt)
    THEN [st EXCEPT !.out = [st.out EXCEPT ![CopyPath(st.opt, path)] = st.disk[path]]]
    ELSE st

\* ThemeWriter.build: build_file for each context of the directive.
RECURSIVE BuildContexts(_, _, _)
BuildContexts(st, b, ctxs) ==
    IF ctxs = <<>> THEN st
    ELSE BuildContexts(CopyFile(BuildFile(st, b, Head(ctxs)), FormatPath(b, ContextName(Head(ctxs)))),
                       b, Tail(ctxs))

Build(st, b) == BuildContexts(st, b, Contexts(b))

\* ThemeWriter.run: build for each directive, the lists concatenated.
RECURSIVE RunBuilds(_, _)
RunBuilds(st, bs) ==
    IF bs = <<>> THEN st
    ELSE RunBuilds(Build(st, Head(bs)), Tail(bs))

\* A writer over the current build tree, cache and configuration, its
\* list of built files empty.
Start == [disk |-> disk, digests |-> digests, built |-> built, written |-> <<>>,
          opt |-> opt, templates |-> templates, palettes |-> palettes,
          out |-> out, wrote |-> <<>>, ops |-> <<>>, raised |-> "none", fault |-> "none"]

NoPath == <<"", "">>

\* wlast: the last operation, the list it returned, and what came before
\* it: phase "ran" right after a run(), "ran-again" right after a run()
\* that directly followed a run(), "ran-deleted" when one file was deleted
\* right after a run(), "other" otherwise.
AfterRun(phase) == phase \in {"ran", "ran-again"}
Finish(op, st, phase) ==
    /\ disk' = st.disk
    /\ digests' = st.digests
    /\ built' = st.built
    /\ out' = st.out
    /\ wlast' = [op |-> op, written |-> st.written, phase |-> phase, deleted |-> NoPath,
                 ops |-> st.ops, raised |-> st.raised]
    /\ UNCHANGED <<templates, palettes, opt, builds>>
    /\ UNCHANGED <<pvars, cvars, evars>>

\* A call that returned.
Returns(op, st, phase) == st.raised = "none" /\ Finish(op, st, phase)
\* A call that raised: what it did before the exception stays done.
Raises(op, st) == st.raised # "none" /\ Finish(op, st, "other")

\* Faults of the file system a call may meet.
Faults == {"none", "OSError"}

\* writer.run()
Run == Returns("run", RunBuilds(Start, builds), IF AfterRun(wlast.phase) THEN "ran-again" ELSE "ran")
RunRaises == Raises("run-raised", RunBuilds(Start, builds))

\* writer.build(bconf)
BuildDirective(i) == Returns("build", Build(Start, builds[i]), "other")
BuildDirectiveRaises(i) == Raises("build-raised", Build(Start, builds[i]))

\* writer.build_file(bconf, data)
BuildOne(i, ctx) ==
    /\ ctx \in SeqToSet(Contexts(builds[i]))
    /\ Returns("build_file", BuildFile(Start, builds[i], ctx), "other")
BuildOneRaises(i, ctx, fault) ==
    /\ ctx \in SeqToSet(Contexts(builds[i]))
    /\ Raises("build_file-raised", BuildFile([Start EXCEPT !.fault = fault], builds[i], ctx))

Quiet(op, phase, p) ==
    wlast' = [op |-> op, written |-> <<>>, phase |-> phase, deleted |-> p,
              ops |-> <<>>, raised |-> "none"]

\* An output file is removed from the build tree; the cache keeps its row.
DeleteFile(p) ==
    /\ disk[p].exists
    /\ disk' = [disk EXCEPT ![p] = NoFile]
    /\ IF AfterRun(wlast.phase) THEN Quiet("delete", "ran-deleted", p) ELSE Quiet("delete", "other", NoPath)
    /\ UNCHANGED <<digests, built, templates, palettes, opt, builds, out>>
    /\ UNCHANGED <<pvars, cvars, evars>>

\* A file of the template directory is created, edited or removed.
EditTemplate(tname, src) ==
    /\ templates[tname] # src
    /\ src \in UserSources(tname) \cup {NoTemplate}
    /\ \E i \in 1..Len(builds) : builds[i].template = tname
    /\ templates' = [templates EXCEPT ![tname] = src]
    /\ Quiet("edit", "other", NoPath)
    /\ UNCHANGED <<disk, digests, built, palettes, opt, builds, out>>
    /\ UNCHANGED <<pvars, cvars, evars>>

\* A colour of a configured palette is redefined.
EditPalette(key, lit) ==
    /\ palettes[key].lit # lit
    /\ palettes' = [palettes EXCEPT ![key].lit = lit]
    /\ Quiet("edit", "other", NoPath)
    /\ UNCHANGED <<disk, digests, built, templates, opt, builds, out>>
    /\ UNCHANGED <<pvars, cvars, evars>>

\* The build tree and cache an earlier invocation left behind: none, or
\* those of a run() of the same directives with the default options
\* ("cached") or with no_cache alone ("uncached").
EarlierRuns == {"none", "cached", "uncached"}
InitialTemplates == [n \in TemplateNames |-> NoTemplate]
InitialPalettes == [k \in SeqToSet(PaletteKeys) |-> [gamut |-> "srgb", lit |-> OklchStr(1)]]
Fresh(o) == [disk |-> [p \in Paths |-> NoFile], digests |-> [p \in Paths |-> None],
             built |-> [p \in Paths |-> NoBuild], written |-> <<>>,
             opt |-> o, templates |-> InitialTemplates, palettes |-> InitialPalettes,
             out |-> [p \in OutPaths |-> NoFile], wrote |-> <<>>,
             ops |-> <<>>, raised |-> "none", fault |-> "none"]
Earlier(e, bs) ==
    IF e = "none" THEN Fresh(DefaultOptions)
    ELSE RunBuilds(Fresh([DefaultOptions EXCEPT !.no_cache = (e = "uncached")]), bs)

WriterInit ==
    /\ opt \in Options
    /\ builds \in BuildSets
    /\ opt.output_dir => Len(builds) = 1
    /\ \E e \in EarlierRuns :
           /\ disk = Earlier(e, builds).disk
           /\ digests = Earlier(e, builds).digests
           /\ built = Earlier(e, builds).built
           /\ out = Earlier(e, builds).out
    /\ templates = InitialTemplates
    /\ palettes = InitialPalettes
    /\ wlast = [op |-> "init", written |-> <<>>, phase |-> "other", deleted |-> NoPath,
                ops |-> <<>>, raised |-> "none"]

WriterNext ==
    \/ Run
    \/ RunRaises
    \/ \E i \in 1..Len(builds) : BuildDirective(i)
    \/ \E i \in 1..Len(builds) : BuildDirectiveRaises(i)
    \/ \E i \in 1..Len(builds), ctx \in SeqToSet(PaletteKeys) \cup {"config"} : BuildOne(i, ctx)
    \/ \E i \in 1..Len(builds), ctx \in SeqToSet(PaletteKeys) \cup {"config"}, fault \in Faults :
           BuildOneRaises(i, ctx, fault)
    \/ \E p \in Paths : DeleteFile(p)
    \/ \E n \in TemplateNames, src \in TemplateSources \cup {NoTemplate} : EditTemplate(n, src)
    \/ \E lit \in PaletteLiterals : EditPalette("dark", lit)

(***************************************************************************)
(* The digest cache (cache.py) and the sessions that hold its connection.  *)
(* cfile is the digests table of the database file, cdir whether the cache *)
(* directory exists, cmem the table of the current in-memory database,     *)
(* cconn the state of the _conn attribute, cmode how the cache was         *)
(* constructed and by whom it is driven, csess the position of the         *)
(* with-statement, cthrown whether its body raised, cout how the           *)
(* with-statement ended, clatest for each path the digest of the most      *)
(* recent add on the connected database that no delete followed, clast     *)
(* the last call.                                                          *)
(***************************************************************************)
CachePaths == {"test.txt", "other.txt"}
CacheDigests == {<<"123">>, <<"456">>}
EmptyTable == [p \in CachePaths |-> None]

\* How a cache is constructed: by itself or inside a ThemeWriter, in
\* memory or on file, the writer with or without no_cache.  Options
\* refuses no_cache together with cache_in_memory.
CacheModes ==
    {m \in [owner : {"cache", "writer"}, in_memory : BOOLEAN, use_cache : BOOLEAN] :
        /\ m.owner = "cache" => m.use_cache
        /\ ~(m.in_memory /\ ~m.use_cache)}

\* Whether the with-statement of the owner connects and closes.
Connects(m) == m.owner = "cache" \/ m.use_cache

\* The table the open connection reads and writes.
Table == IF cmode.in_memory THEN cmem ELSE cfile

ConnectTable_Kept(in_memory, mem, file) == IF in_memory THEN mem ELSE file
\* sqlite3.connect: ":memory:" is a new empty database, a file is opened
\* with the rows it holds.
ConnectTable(in_memory, mem, file) == IF in_memory THEN EmptyTable ELSE file

CacheDelete_Dropped(d, path) == d
\* Cache.delete
CacheDelete(d, path) == [d EXCEPT ![path] = None]

\* Cache.get_digests: the rows as a mapping.
CacheGetDigests(d) == {<<p, d[p]>> : p \in {q \in CachePaths : d[q] # None}}

CCall(op, path, res, all, err) ==
    [op |-> op, path |-> path, res |-> res, all |-> all, err |-> err, was |-> cconn,
     before |-> Table]

\* An exception raised inside the body of a with-statement is pending
\* until __exit__ has run.
Pending(raises) == IF raises /\ csess = "body" THEN TRUE ELSE cthrown

\* The table as written through the open connection.
Store(tbl) ==
    IF cmode.in_memory THEN cmem' = tbl /\ UNCHANGED cfile
    ELSE cfile' = tbl /\ UNCHANGED cmem

\* A call that needs the connection, made without one: AttributeError if
\* _conn was never set, sqlite3.ProgrammingError if it is closed.
NoConnection(op, path) ==
    /\ cconn # "open"
    /\ clast' = CCall(op, path, None, {}, IF cconn = "unset" THEN "AttributeError" ELSE "ProgrammingError")
    /\ cthrown' = Pending(TRUE)
    /\ UNCHANGED <<cfile, cdir, cmem, cconn, cmode, csess, cout, clatest>>

\* CacheDB.__init__: another instance over the same cache directory,
\* which is created when the cache is on file.
New ==
    /\ csess \in {"none", "ended"}
    /\ cconn # "unset"
    /\ cconn' = "unset"
    /\ cdir' = IF cmode.in_memory THEN cdir ELSE TRUE
    /\ csess' = "none"
    /\ clast' = CCall("new", "", None, {}, "none")
    /\ UNCHANGED <<cfile, cmem, cmode, cthrown, cout, clatest>>
    /\ UNCHANGED <<pvars, wvars, evars>>

\* CacheDB.connect, called outside a with-statement.
Connect ==
    /\ csess \in {"none", "ended"}
    /\ IF ~cmode.in_memory /\ ~cdir
       THEN /\ clast' = CCall("connect", "", None, {}, "OperationalError")
            /\ UNCHANGED <<cmem, cconn, clatest>>
       ELSE /\ cconn' = "open"
            /\ cmem' = ConnectTable(cmode.in_memory, cmem, cfile)
            /\ clatest' = IF cmode.in_memory THEN EmptyTable ELSE clatest
            /\ clast' = CCall("connect", "", None, {}, "none")
    /\ csess' = "none"
    /\ UNCHANGED <<cfile, cdir, cmode, cthrown, cout>>
    /\ UNCHANGED <<pvars, wvars, evars>>

\* CacheDB.close
Close ==
    /\ csess \in {"none", "ended"}
    /\ IF cconn = "unset"
       THEN /\ clast' = CCall("close", "", None, {}, "AttributeError")
            /\ UNCHANGED cconn
       ELSE /\ cconn' = "closed"
            /\ clast' = CCall("close", "", None, {}, "none")
    /\ csess' = "none"
    /\ UNCHANGED <<cfile, cdir, cmem, cmode, cthrown, cout, clatest>>
    /\ UNCHANGED <<pvars, wvars, evars>>

\* CacheDB.clear: nothing in memory; on file the connection is closed and
\* the cache directory removed.
Clear ==
    /\ IF cmode.in_memory
       THEN /\ clast' = CCall("clear", "", None, {}, "none")
            /\ UNCHANGED <<cfile, cdir, cconn, clatest, cthrown>>
       ELSE IF cconn = "unset"
       THEN /\ clast' = CCall("clear", "", None, {}, "AttributeError")
            /\ cthrown' = Pending(TRUE)
            /\ UNCHANGED <<cfile, cdir, cconn, clatest>>
       ELSE /\ cconn' = "closed"
            /\ cdir' = FALSE
            /\ cfile' = EmptyTable
            /\ clatest' = EmptyTable
            /\ clast' = CCall("clear", "", None, {}, "none")
            /\ UNCHANGED cthrown
    /\ UNCHANGED <<cmem, cmode, csess, cout>>
    /\ UNCHANGED <<pvars, wvars, evars>>

\* Cache.add
Add(p, d) ==
    /\ \/ NoConnection("add", p) /\ UNCHANGED <<pvars, wvars, evars>>
       \/ /\ cconn = "open"
          /\ Store(CacheAdd(Table, p, d))
          /\ clatest' = [clatest EXCEPT ![p] = d]
          /\ clast' = CCall("add", p, d, {}, "none")
          /\ UNCHANGED <<cdir, cconn, cmode, csess, cthrown, cout>>
          /\ UNCHANGED <<pvars, wvars, evars>>

\* Cache.delete
Delete(p) ==
    /\ \/ NoConnection("delete", p) /\ UNCHANGED <<pvars, wvars, evars>>
       \/ /\ cconn = "open"
          /\ Store(CacheDelete(Table, p))
          /\ clatest' = [clatest EXCEPT ![p] = None]
          /\ clast' = CCall("delete", p, None, {}, "none")
          /\ UNCHANGED <<cdir, cconn, cmode, csess, cthrown, cout>>
          /\ UNCHANGED <<pvars, wvars, evars>>

\* Cache.get
Get(p) ==
    /\ \/ NoConnection("get", p) /\ UNCHANGED <<pvars, wvars, evars>>
       \/ /\ cconn = "open"
          /\ clast' = CCall("get", p, CacheGet(Table, p), {}, "none")
          /\ UNCHANGED <<cfile, cdir, cmem, cconn, cmode, csess, cthrown, cout, clatest>>
          /\ UNCHANGED <<pvars, wvars, evars>>

\* Cache.get_digests
GetDigests ==
    /\ \/ NoConnection("get_digests", "") /\ UNCHANGED <<pvars, wvars, evars>>
       \/ /\ cconn = "open"
          /\ clast' = CCall("get_digests", "", None, CacheGetDigests(Table), "none")
          /\ UNCHANGED <<cfile, cdir, cmem, cconn, cmode, csess, cthrown, cout, clatest>>
          /\ UNCHANGED <<pvars, wvars, evars>>

\* Cache.__enter__ / ThemeWriter.__enter__: connect (the writer only with
\* use_cache); an error of connect leaves the with-statement unentered.
Enter ==
    /\ csess \in {"none", "ended"}
    /\ IF Connects(cmode) /\ ~cmode.in_memory /\ ~cdir
       THEN /\ clast' = CCall("enter", "", None, {}, "OperationalError")
            /\ csess' = "none"
            /\ UNCHANGED <<cmem, cconn, clatest>>
       ELSE /\ clast' = CCall("enter", "", None, {}, "none")
            /\ csess' = "body"
            /\ IF Connects(cmode)
               THEN /\ cconn' = "open"
                    /\ cmem' = ConnectTable(cmode.in_memory, cmem, cfile)
                    /\ clatest' = IF cmode.in_memory THEN EmptyTable ELSE clatest
               ELSE UNCHANGED <<cmem, cconn, clatest>>
    /\ cthrown' = FALSE
    /\ cout' = "running"
    /\ UNCHANGED <<cfile, cdir, cmode>>
    /\ UNCHANGED <<pvars, wvars, evars>>

\* The body of the with-statement raises (raise ValueError("bomb")).
BodyRaises ==
    /\ csess = "body"
    /\ ~cthrown
    /\ cthrown' = TRUE
    /\ clast' = CCall("raise", "", None, {}, "ValueError")
    /\ UNCHANGED <<cfile, cdir, cmem, cconn, cmode, csess, cout, clatest>>
    /\ UNCHANGED <<pvars, wvars, evars>>

ExitCloses_OnSuccess(m, thrown) == Connects(m) /\ ~thrown
\* __exit__ closes whatever the body did (the writer only with use_cache).
ExitCloses(m, thrown) == Connects(m)

ExitOutcome_Swallowed(thrown) == "normal"
\* __exit__ returns None: a pending exception is raised again.
ExitOutcome(thrown) == IF thrown THEN "exception" ELSE "normal"

\* Cache.__exit__ / ThemeWriter.__exit__
Exit ==
    /\ csess = "body"
    /\ csess' = "ended"
    /\ cconn' = IF ExitCloses(cmode, cthrown) THEN "closed" ELSE cconn
    /\ cout' = ExitOutcome(cthrown)
    /\ clast' = CCall("exit", "", None, {}, "none")
    /\ UNCHANGED <<cfile, cdir, cmem, cmode, cthrown, clatest>>
    /\ UNCHANGED <<pvars, wvars, evars>>

\* A body that has raised runs no further statement.
InBody(A) == (csess = "body" => ~cthrown) /\ A

CacheInit ==
    /\ cmode \in CacheModes
    /\ cfile = EmptyTable
    /\ cdir = TRUE
    /\ cmem = EmptyTable
    /\ cconn = "unset"
    /\ csess = "none"
    /\ cthrown = FALSE
    /\ cout = "running"
    /\ clatest = EmptyTable
    /\ clast = [op |-> "init", path |-> "", res |-> None, all |-> {}, err |-> "none", was |-> "unset",
                before |-> EmptyTable]

CacheNext ==
    \/ New
    \/ Connect
    \/ Close
    \/ InBody(Clear)
    \/ \E p \in CachePaths, d \in CacheDigests : InBody(Add(p, d))
    \/ \E p \in CachePaths : InBody(Delete(p))
    \/ \E p \in CachePaths : InBody(Get(p))
    \/ InBody(GetDigests)
    \/ Enter
    \/ BodyRaises
    \/ Exit

\* The cache at rest, while another machine runs.
CacheIdle == CacheInit /\ cmode = [owner |-> "cache", in_memory |-> FALSE, use_cache |-> TRUE]

(***************************************************************************)
(* The palette lookup of a configuration (config.py).  gpalettes is the   *)
(* palettes dict in insertion order, each entry the key and the aliases   *)
(* of its palette; glu is the _palette_lu dict, a palette standing by its *)
(* key; glast is the last call.                                           *)
(***************************************************************************)
\* Keys of the palettes dict, and the names a lookup may ask for.
ConfigKeys == {"hadalized", "hadalized-day"}
LookupNames == ConfigKeys \cup {"dark", "day", "gray"}

\* Palette.aliases as a configuration may declare them.
AliasLists == {<<>>, <<"dark">>, <<"day">>, <<"dark", "day">>, <<"hadalized">>, <<"hadalized-day">>}

\* No entry in a dict.
NoPalette == "KeyError"

\* The palettes dicts: one or two entries under different keys.
ConfigPalettes ==
    {ps \in UNION {[1..n -> [key : ConfigKeys, aliases : AliasLists]] : n \in 1..2} :
        \A i, j \in 1..Len(ps) : ps[i].key = ps[j].key => i = j}

\* for alias in palette.aliases: self._palette_lu[alias] = palette
RECURSIVE SetAliases(_, _, _)
SetAliases(lu, aliases, key) ==
    IF aliases = <<>> THEN lu
    ELSE SetAliases([lu EXCEPT ![Head(aliases)] = key], Tail(aliases), key)

\* Config.model_post_init: for each entry in order, the key and then
\* every alias is assigned to the palette.
RECURSIVE SetLookups(_, _)
SetLookups(lu, ps) ==
    IF ps = <<>> THEN lu
    ELSE SetLookups(SetAliases([lu EXCEPT ![Head(ps).key] = Head(ps).key],
                               Head(ps).aliases, Head(ps).key),
                    Tail(ps))

EmptyLookup == [n \in LookupNames |-> NoPalette]

\* Config(palettes=ps), also by Config.replace(palettes=ps).
NewConfig(ps) ==
    /\ gpalettes' = ps
    /\ glu' = SetLookups(EmptyLookup, ps)
    /\ glast' = [op |-> "replace", name |-> "", res |-> NoPalette, err |-> "none"]
    /\ UNCHANGED <<pvars, wvars, cvars, hvars, ivars>>

\* Config.get_palette(name)
GetPalette(name) ==
    /\ glast' = [op |-> "get_palette", name |-> name, res |-> glu[name],
                 err |-> IF glu[name] = NoPalette THEN "KeyError" ELSE "none"]
    /\ UNCHANGED <<gpalettes, glu>>
    /\ UNCHANGED <<pvars, wvars, cvars, hvars, ivars>>

ConfigInit ==
    /\ gpalettes \in ConfigPalettes
    /\ glu = SetLookups(EmptyLookup, gpalettes)
    /\ glast = [op |-> "init", name |-> "", res |-> NoPalette, err |-> "none"]

ConfigNext ==
    \/ \E ps \in ConfigPalettes : NewConfig(ps)
    \/ \E name \in LookupNames : GetPalette(name)

\* The configuration of default_palettes, while another machine runs.
ConfigIdle ==
    /\ gpalettes = <<[key |-> "hadalized", aliases |-> <<"dark">>],
                     [key |-> "hadalized-day", aliases |-> <<"day">>]>>
    /\ ConfigInit

(***************************************************************************)
(* The input of the digest, byte by byte (writer.py, base.py).  htemplate *)
(* is the content of the template file, hname the name of the context (a  *)
(* model with the one field "name"), hlast the last call of _hash.         *)
(***************************************************************************)
\* b'{"name":"' and b'"}': what model_dump_json puts around the value.
DumpOpen == <<"{", "\"", "n", "a", "m", "e", "\"", ":", "\"">>
DumpClose == <<"\"", "}">>

\* Pieces template files and names are made of: a letter, the separator,
\* a quote, a backslash, and the opening and closing of a JSON dump.
Pieces == {<<>>, <<"a">>, Separator, <<"\"">>, <<"\\">>, DumpOpen \o <<"a">>, DumpClose}
HashTemplates == {x \o y : x \in Pieces \ {<<"\"">>, <<"\\">>}, y \in Pieces}
HashNames == {x \o y : x \in Pieces, y \in Pieces \ {<<>>}}

JsonEscape_Raw(s) == s
\* The JSON string escapes of the quote and the backslash.
RECURSIVE JsonEscape(_)
JsonEscape(s) ==
    IF s = <<>> THEN <<>>
    ELSE (IF Head(s) \in {"\"", "\\"} THEN <<"\\", Head(s)>> ELSE <<Head(s)>>) \o JsonEscape(Tail(s))

\* BaseNode.encode: model_dump_json().encode()
ModelDumpJson(name) == DumpOpen \o JsonEscape(name) \o DumpClose

\* _hash(template, context), the bytes handed to blake2b.
HashCall ==
    /\ hlast' = [op |-> "hash", t |-> htemplate, c |-> ModelDumpJson(hname),
                 input |-> Hash(htemplate, ModelDumpJson(hname))]
    /\ UNCHANGED <<htemplate, hname>>
    /\ UNCHANGED <<pvars, wvars, cvars, gvars, ivars>>

\* The template file is rewritten.
HashTemplate(t) ==
    /\ htemplate' = t
    /\ hlast' = [op |-> "init", t |-> <<>>, c |-> <<>>, input |-> <<>>]
    /\ UNCHANGED hname
    /\ UNCHANGED <<pvars, wvars, cvars, gvars, ivars>>

\* The context is renamed.
HashName(n) ==
    /\ hname' = n
    /\ hlast' = [op |-> "init", t |-> <<>>, c |-> <<>>, input |-> <<>>]
    /\ UNCHANGED htemplate
    /\ UNCHANGED <<pvars, wvars, cvars, gvars, ivars>>

HashInit ==
    /\ htemplate \in HashTemplates
    /\ hname \in HashNames
    /\ hlast = [op |-> "init", t |-> <<>>, c |-> <<>>, input |-> <<>>]

HashNext ==
    \/ HashCall
    \/ \E t \in HashTemplates : HashTemplate(t)
    \/ \E n \in HashNames : HashName(n)

HashIdle ==
    /\ htemplate = <<"a">>
    /\ hname = <<"a">>
    /\ HashInit

(***************************************************************************)
(* The command "config init" (cli/main.py).  ifile holds the files it    *)
(* may target, ilast the last operation with the options it was given and *)
(* the files as they were before.                                          *)
(***************************************************************************)
\* A target: no file, or a file that is empty, holds the dumped
\* configuration, or holds what the user made of it.
NoInitFile == [exists |-> FALSE, text |-> ""]
InitFile(text) == [exists |-> TRUE, text |-> text]
InitFiles == {NoInitFile, InitFile(""), InitFile("config"), InitFile("user")}

\* The options config_init reads; output is "stdout", a path that ends
\* in ".toml", or a directory.
InitOptions == [force : BOOLEAN, dry_run : BOOLEAN, quiet : BOOLEAN, output : {"stdout", "file", "dir"}]

\* The file config_init is to write: the path given, or config.toml under
\* it when its suffix is not ".toml".
InitTargets == {"hadalized.toml", "config.toml"}
InitTarget(o) == IF o.output = "file" THEN "hadalized.toml" ELSE "config.toml"

\* config_init: print to stdout and return; return when the target exists
\* and force is unset; otherwise open the target for writing, which
\* creates or empties it, and dump the configuration unless dry_run.
ConfigInitFile(o, f) ==
    IF o.output = "stdout" THEN f
    ELSE IF f.exists /\ ~o.force THEN f
    ELSE InitFile(IF o.dry_run THEN "" ELSE "config")

ConfigInitCmd(o) ==
    /\ ifile' = [ifile EXCEPT ![InitTarget(o)] = ConfigInitFile(o, ifile[InitTarget(o)])]
    /\ ilast' = [op |-> "config_init", opt |-> o, before |-> ifile]
    /\ UNCHANGED <<pvars, wvars, cvars, gvars, hvars>>

NoInitOptions == [force |-> FALSE, dry_run |-> FALSE, quiet |-> FALSE, output |-> "file"]

\* The user edits a target file.
EditInitFile(t) ==
    /\ ifile[t].exists
    /\ ifile' = [ifile EXCEPT ![t] = InitFile("user")]
    /\ ilast' = [op |-> "edit", opt |-> NoInitOptions, before |-> ifile]
    /\ UNCHANGED <<pvars, wvars, cvars, gvars, hvars>>

\* The user removes a target file.
RemoveInitFile(t) ==
    /\ ifile[t].exists
    /\ ifile' = [ifile EXCEPT ![t] = NoInitFile]
    /\ ilast' = [op |-> "remove", opt |-> NoInitOptions, before |-> ifile]
    /\ UNCHANGED <<pvars, wvars, cvars, gvars, hvars>>

CliInit ==
    /\ ifile \in [InitTargets -> {NoInitFile, InitFile("user")}]
    /\ ilast = [op |-> "init", opt |-> NoInitOptions, before |-> ifile]

CliNext ==
    \/ \E o \in InitOptions : ConfigInitCmd(o)
    \/ \E t \in InitTargets : EditInitFile(t)
    \/ \E t \in InitTargets : RemoveInitFile(t)

CliIdle ==
    /\ ifile = [t \in InitTargets |-> NoInitFile]
    /\ CliInit

(***************************************************************************)
(* Specifications.                                                         *)
(***************************************************************************)
\* The writer at rest, while the palette machine runs.
WriterIdle ==
    /\ opt = DefaultOptions
    /\ builds = <<BuildConfig("neovim", "", "neovim.lua", "", "palette", "hex")>>
    /\ disk = Fresh(opt).disk
    /\ WriterInit

\* The palette machine at rest, while the writer runs.
PaletteIdle ==
    /\ heap = <<NewPalette("srgb", OklchStr(1), OklchStr(3), OklchStr(0))>>
    /\ origin = <<[op |-> "init", recv |-> 0, arg |-> "none"]>>
    /\ last = Call("init", 0, "none", 1, "none", 0)

ExtrasIdle == ConfigIdle /\ HashIdle /\ CliIdle

Init == PaletteInit /\ WriterIdle /\ CacheIdle /\ ExtrasIdle
Next == PaletteNext
Spec == Init /\ [][Next]_vars

InitWriter == WriterInit /\ PaletteIdle /\ CacheIdle /\ ExtrasIdle
NextWriter == WriterNext
SpecWriter == InitWriter /\ [][NextWriter]_vars

InitCache == CacheInit /\ PaletteIdle /\ WriterIdle /\ ExtrasIdle
NextCache == CacheNext
SpecCache == InitCache /\ [][NextCache]_vars

InitConfig == PaletteIdle /\ WriterIdle /\ CacheIdle /\ HashIdle /\ CliIdle /\ ConfigInit
NextConfig == ConfigNext
SpecConfig == InitConfig /\ [][NextConfig]_vars

InitHash == PaletteIdle /\ WriterIdle /\ CacheIdle /\ ConfigIdle /\ CliIdle /\ HashInit
NextHash == HashNext
SpecHash == InitHash /\ [][NextHash]_vars

InitCli == PaletteIdle /\ WriterIdle /\ CacheIdle /\ ConfigIdle /\ HashIdle /\ CliInit
NextCli == CliNext
SpecCli == InitCli /\ [][NextCli]_vars

(***************************************************************************)
(* Palette properties, checked under Spec.                                 *)
(***************************************************************************)
\* The object a call was made on, and whether it returned a palette.
Receiver == heap[last.recv]
Raised == last.err # "none" /\ last.res = 0 /\ Len(heap) = last.pre

\* A palette that Palette.to built: the projection of a parsed palette.
IsProjection(i) == origin[i].op = "to"

\* C5: p.to(k1).to(k2), with p parsed, k1 one of hex, css, oklch and k2
\* any kind (the full-detail kind included), raises an error and returns
\* no palette: a call of to on a palette that to produced always raises.
C5_ProjectionNotProjected ==
    (last.op = "to" /\ IsProjection(last.recv)) => (Raised /\ last.err = "TypeError")

\* C5 witness: to was called with the full-detail kind on a projection.
C5_Witness ==
    /\ last.op = "to"
    /\ IsProjection(last.recv)
    /\ last.arg = identity
    /\ last.err = "TypeError"

C7_ParseIdempotent ==
    /\ (last.op = "parse" /\ last.arg = NoGamut /\ last.err = "none") =>
           heap[last.res].is_parsed
    /\ (last.op = "parse" /\ last.arg = NoGamut /\ Receiver.is_parsed) =>
           (last.res = last.recv /\ last.err = "none" /\ Len(heap) = last.pre)

\* C7 witness: parse() was called on a palette that parse() had built,
\* and returned it.
C7_Witness ==
    /\ last.op = "parse"
    /\ last.arg = NoGamut
    /\ origin[last.recv] = [op |-> "parse", recv |-> 1, arg |-> Receiver.gamut]
    /\ last.res = last.recv

\* The gamut a slot value is fitted to, "none" for a string.
FittedTo(v) == IF IsInfo(v) THEN v.info.gamut ELSE "none"

\* C8: every slot of the palette returned by p.parse(g) is a ColorValue
\* fitted to g, or to p's declared gamut when no g is given.
C8_ParseFitsRequestedGamut ==
    (last.op = "parse" /\ last.err = "none") =>
        \A m \in Maps : \A s \in SlotsOf(m) :
            FittedTo(heap[last.res].colors[m][s]) = EffectiveGamut(Receiver, last.arg)

\* What parse, to and map must leave alone in an existing palette.
Frozen(p) == [name |-> p.name, gamut |-> p.gamut, colors |-> p.colors,
              ftype |-> p.ftype, is_parsed |-> p.is_parsed]

\* C9: no call of parse, to or map changes the metadata, a colour slot, a
\* field_type or the is_parsed flag of a palette that exists already.
C9_ReceiverUnchanged ==
    [][\A i \in 1..Len(heap) : i <= Len(heap') /\ Frozen(heap'[i]) = Frozen(heap[i])]_vars

\* C9 witness: one parsed palette was projected with one kind and then
\* with another.
C9_Witness ==
    /\ last.op = "to"
    /\ last.err = "none"
    /\ last.arg \in MemoKinds
    /\ \E k \in MemoKinds \ {last.arg} : Receiver.cache[k] # 0
    /\ last.res = Len(heap)

\* The palette to(k) must give for p: field k of every slot of p.
Extraction(p, k) ==
    [name |-> p.name, gamut |-> p.gamut,
     colors |-> [m \in Maps |-> [s \in SlotsOf(m) |-> StrVal(ExtractField(p.colors[m][s].info, k))]],
     ftype |-> [m \in Maps |-> k]]
Projected(q) == [name |-> q.name, gamut |-> q.gamut, colors |-> q.colors, ftype |-> q.ftype]

\* C10: the memo of a parsed palette p holds under a kind k only the
\* palette that to(k) built for p, which is the extraction of field k
\* from p; to(k) returns the palette the memo of p holds under k; to
\* builds at most one palette per palette and kind; no palette is in the
\* memo of two palettes or under two kinds.
C10_MemoPerInstanceAndKind ==
    /\ \A r \in Objs : \A k \in MemoKinds :
           heap[r].cache[k] # 0 =>
               /\ heap[r].cache[k] \in Objs
               /\ heap[r].is_parsed
               /\ origin[heap[r].cache[k]] = [op |-> "to", recv |-> r, arg |-> k]
               /\ Projected(heap[heap[r].cache[k]]) = Extraction(heap[r], k)
    /\ \A i, j \in Objs : (IsProjection(i) /\ origin[i] = origin[j]) => i = j
    /\ \A i \in Objs : IsProjection(i) => heap[origin[i].recv].cache[origin[i].arg] = i
    /\ (last.op = "to" /\ last.err = "none" /\ last.arg # identity) =>
           last.res = Receiver.cache[last.arg]

\* C10 witness: to(k) was answered from the memo, while another parsed
\* palette exists.
C10_Witness ==
    /\ last.op = "to"
    /\ last.arg \in MemoKinds
    /\ last.err = "none"
    /\ last.res # 0
    /\ last.res < Len(heap)
    /\ Len(heap) = last.pre
    /\ \E i \in Objs : i # last.recv /\ heap[i].is_parsed

\* The slots of palette i that do not hold a ColorValue.
Strings(i) == {<<m, s>> \in Maps \X {"red", "blue", "bg"} :
                   s \in SlotsOf(m) /\ ~IsInfo(heap[i].colors[m][s])}

InMode(v, ft) ==
    CASE ft = "none" -> ~IsInfo(v)
      [] ft = "info" -> IsInfo(v)
      [] OTHER -> ~IsInfo(v) /\ v.s.fmt = ft

C16_BadLiteralRaises ==
    /\ \A g \in Gamuts : ParserRaises(g, StrVal(BadStr))
    /\ \A i \in Objs : (\E x \in Strings(i) : Unparseable(heap[i].colors[x[1]][x[2]].s)) =>
           /\ \A g \in Gamuts : PaletteMapRaises(heap[i], Parser(g))
           /\ ~heap[i].is_parsed
    /\ (last.op = "parse" /\ \E x \in Strings(last.recv) : Unparseable(Receiver.colors[x[1]][x[2]].s)) =>
           (Raised /\ last.err = "ValueError" /\ ~Receiver.is_parsed)

\* C16 witness: parse was called on a palette with an unparseable literal.
C16_Witness ==
    /\ last.op = "parse"
    /\ last.err = "ValueError"
    /\ \E x \in Strings(last.recv) : Receiver.colors[x[1]][x[2]].s = BadStr
    /\ Len(heap) = 1

\* The palette is in an extracted mode: every ColorMap holds the strings
\* of one of the fields hex, css, oklch.
Extracted(p) == \A m \in Maps : p.ftype[m] \in {"hex", "css", "oklch"}

\* C26: parse, or map with a Parser, on a palette in an extracted mode
\* raises and builds no palette.
C26_ParserOnExtractedFails ==
    (/\ last.op \in {"parse", "map"}
     /\ last.op = "map" => last.arg \in Gamuts
     /\ Extracted(Receiver)) => Raised

(***************************************************************************)
(* Writer properties, checked under SpecWriter.                            *)
(***************************************************************************)
\* What build_file computes for directive i and context ctx.
PathOf(i, ctx) == FormatPath(builds[i], ContextName(ctx))
TemplateBytesOf(i) == EncodeTemplate(opt, templates, builds[i].template)
ContextBytesOf(i, ctx) == EncodeContext(opt, palettes, ctx, builds[i].color_type)
DigestOf(i, ctx) == Hash(TemplateBytesOf(i), ContextBytesOf(i, ctx))

\* The (directive, context) pairs of a run, and whether two of them
\* have the same output path.
Pairs == {<<i, ctx>> \in (1..Len(builds)) \X (SeqToSet(PaletteKeys) \cup {"config"}) :
              ctx \in SeqToSet(Contexts(builds[i]))}
PathsDistinct == \A x, y \in Pairs : PathOf(x[1], x[2]) = PathOf(y[1], y[2]) => x = y

\* build_file returned is_built = False and left disk and cache alone.
Skipped == wlast'.written = <<>> /\ disk' = disk /\ digests' = digests

\* C1 as stated: build_file skips exactly when caching is enabled, the
\* output file exists and the stored digest equals the fresh digest.
C1_SkipIffThreeConditions ==
    [][\A i \in 1..Len(builds) : \A ctx \in SeqToSet(Contexts(builds[i])) :
           BuildOne(i, ctx) =>
               /\ Skipped <=> (/\ UseCache(opt)
                               /\ disk[PathOf(i, ctx)].exists
                               /\ digests[PathOf(i, ctx)] = DigestOf(i, ctx))
               /\ ~Skipped => wlast'.written = <<PathOf(i, ctx)>>]_vars

\* C1 amended: build_file skips exactly when force is unset, caching is
\* enabled, the output file exists and the stored digest equals the fresh
\* digest; otherwise the file is rendered and reported as built.
C1_SkipIffFourConditions ==
    [][\A i \in 1..Len(builds) : \A ctx \in SeqToSet(Contexts(builds[i])) :
           BuildOne(i, ctx) =>
               /\ Skipped <=> (/\ ~opt.force
                               /\ UseCache(opt)
                               /\ disk[PathOf(i, ctx)].exists
                               /\ digests[PathOf(i, ctx)] = DigestOf(i, ctx))
               /\ ~Skipped => wlast'.written = <<PathOf(i, ctx)>>]_vars

\* C1 witness: build_file skipped a file that exists, and the cache holds
\* a digest for another path that is not the digest stored for this one.
C1_Witness ==
    /\ wlast.op = "build_file"
    /\ wlast.written = <<>>
    /\ \E p \in Paths : disk[p].exists /\ digests[p] # None
    /\ \E p \in Paths : digests[p] = None

\* C2 as stated: with caching enabled, a run() right after a run() returns
\* the empty list and leaves every file as it was.
C2_SecondRunWritesNothing ==
    [][(Run /\ AfterRun(wlast.phase) /\ UseCache(opt)) =>
           (wlast'.written = <<>> /\ disk' = disk)]_vars

\* C2 amended: ... with caching enabled, force and dry_run unset, and no
\* two (directive, context) pairs sharing an output path.
C2_SecondRunWritesNothingUnforced ==
    [][(Run /\ AfterRun(wlast.phase) /\ UseCache(opt)
            /\ ~opt.force /\ ~opt.dry_run /\ PathsDistinct) =>
           (wlast'.written = <<>> /\ disk' = disk /\ digests' = digests)]_vars

\* C2 witness: a second run() in a row wrote nothing, the files of the
\* first being on disk.
C2_Witness ==
    /\ wlast.op = "run"
    /\ wlast.phase = "ran-again"
    /\ wlast.written = <<>>
    /\ ~opt.force /\ ~opt.dry_run /\ UseCache(opt) /\ PathsDistinct
    /\ \A x \in Pairs : disk[PathOf(x[1], x[2])].exists

\* A run() that follows a cached build and the deletion of one output.
RunAfterDelete == Run /\ wlast.phase = "ran-deleted" /\ UseCache(opt) /\ ~opt.dry_run

\* The run() rewrote the deleted file and nothing else.
OnlyDeletedRebuilt ==
    /\ wlast'.written = <<wlast.deleted>>
    /\ disk'[wlast.deleted].exists
    /\ \A p \in Paths \ {wlast.deleted} : disk'[p] = disk[p]
    /\ digests' = digests

\* C3 as stated: after a cached build and the deletion of one output
\* file, the next run() rewrites that file and skips every other.
C3_DeletedFileRebuilt ==
    [][RunAfterDelete => OnlyDeletedRebuilt]_vars

\* C3 amended: ... with force unset and no two (directive, context) pairs
\* sharing an output path.
C3_DeletedFileRebuiltUnforced ==
    [][(RunAfterDelete /\ ~opt.force /\ PathsDistinct) => OnlyDeletedRebuilt]_vars

\* C3 witness: the run() after the deletion wrote one file while another
\* output, left on disk, was skipped.
C3_Witness ==
    /\ wlast.op = "run"
    /\ Len(wlast.written) = 1
    /\ ~opt.force /\ UseCache(opt) /\ ~opt.dry_run /\ PathsDistinct
    /\ Cardinality(Pairs) > 1
    /\ \A x \in Pairs : /\ disk[PathOf(x[1], x[2])].exists
                        /\ digests[PathOf(x[1], x[2])] = DigestOf(x[1], x[2])
    /\ built[wlast.written[1]] # NoBuild

\* The template bytes or the context bytes of (i, ctx) are not those the
\* stored digest of its path was computed from, and the file exists.
ChangedSinceBuild(i, ctx) ==
    /\ disk[PathOf(i, ctx)].exists
    /\ built[PathOf(i, ctx)] # NoBuild
    /\ \/ built[PathOf(i, ctx)].t # TemplateBytesOf(i)
       \/ built[PathOf(i, ctx)].c # ContextBytesOf(i, ctx)

\* The file was rendered anew and the stored digest replaced.
Rebuilt(i, ctx) ==
    /\ wlast'.written = <<PathOf(i, ctx)>>
    /\ disk'[PathOf(i, ctx)] = File(Render(TemplateBytesOf(i), ContextBytesOf(i, ctx)))
    /\ digests'[PathOf(i, ctx)] = DigestOf(i, ctx)
    /\ digests'[PathOf(i, ctx)] # digests[PathOf(i, ctx)]

\* C4 as stated: with caching enabled, a build of a path whose template
\* bytes or context bytes changed since its cached build rewrites the
\* file and replaces the stored digest.
C4_ChangeForcesRebuild ==
    [][\A i \in 1..Len(builds) : \A ctx \in SeqToSet(Contexts(builds[i])) :
           (BuildOne(i, ctx) /\ UseCache(opt) /\ ChangedSinceBuild(i, ctx)) =>
               Rebuilt(i, ctx)]_vars

\* C4 amended: ... with caching enabled and dry_run unset.
C4_ChangeForcesRebuildWet ==
    [][\A i \in 1..Len(builds) : \A ctx \in SeqToSet(Contexts(builds[i])) :
           (BuildOne(i, ctx) /\ UseCache(opt) /\ ~opt.dry_run /\ ChangedSinceBuild(i, ctx)) =>
               Rebuilt(i, ctx)]_vars

\* C4 witness: a file was rebuilt by build_file although force is unset
\* and a file of the same template, built before the change, still exists.
C4_Witness ==
    /\ wlast.op = "build_file"
    /\ Len(wlast.written) = 1
    /\ ~opt.force /\ UseCache(opt) /\ ~opt.dry_run
    /\ \E p \in Paths \ {wlast.written[1]} :
           /\ disk[p].exists
           /\ built[p] # NoBuild
           /\ disk[p].text.template # disk[wlast.written[1]].text.template

(***************************************************************************)
(* Cache properties, checked under SpecCache.                              *)
(***************************************************************************)
\* C11: while connected, the table holds for every path the digest of the
\* most recent add that no delete followed and nothing for any other
\* path; get(p) returns that digest or None, and get_digests() returns
\* exactly that mapping, one entry per path.
C11_GetReturnsLatestAdd ==
    /\ cconn = "open" => \A p \in CachePaths : CacheGet(Table, p) = clatest[p]
    /\ (clast.op = "get" /\ clast.err = "none") => clast.res = clatest[clast.path]
    /\ (clast.op = "get_digests" /\ clast.err = "none") =>
           /\ clast.all = {<<p, clatest[p]>> : p \in {q \in CachePaths : clatest[q] # None}}
           /\ \A x, y \in clast.all : x[1] = y[1] => x = y

\* C11 witness: get returned the digest of one path while the other path
\* holds a different digest.
C11_Witness ==
    /\ clast.op = "get"
    /\ clast.err = "none"
    /\ clast.res # None
    /\ \E q \in CachePaths \ {clast.path} : clatest[q] # None /\ clatest[q] # clast.res

\* A connect (by connect() or by __enter__) that followed a close().
Reconnected ==
    /\ clast.op \in {"connect", "enter"}
    /\ clast.err = "none"
    /\ clast.was = "closed"
    /\ cconn = "open"

\* C12: after close() and a new connect(), an in-memory cache returns
\* None for every path, and a cache on file returns for every path what
\* it held before.
C12_MemoryForgetsFileKeeps ==
    Reconnected =>
        \A p \in CachePaths :
            CacheGet(Table, p) = IF cmode.in_memory THEN None ELSE clast.before[p]

\* C12 witness: an in-memory cache that held an entry was closed and
\* connected again.
C12_Witness ==
    /\ Reconnected
    /\ cmode.in_memory
    /\ clast.before # EmptyTable

\* C13: when a with-statement of a Cache, or of a ThemeWriter with
\* caching enabled, has ended, the connection is closed, and the
\* statement ended with an exception exactly when its body raised.
C13_SessionEndsClosed ==
    (csess = "ended" /\ Connects(cmode)) =>
        /\ cconn = "closed"
        /\ cout = IF cthrown THEN "exception" ELSE "normal"

\* C13 witness: the with-statement of a ThemeWriter with caching enabled
\* has ended after its body raised.
C13_Witness ==
    /\ csess = "ended"
    /\ cmode.owner = "writer"
    /\ cmode.use_cache
    /\ cthrown
    /\ cout = "exception"
    /\ cconn = "closed"

\* C18 as stated: the list run() or build() returns holds exactly the
\* paths whose files the call wrote to disk, in the order of writing.
C18_ReturnedListIsWrittenFiles ==
    [][/\ (wlast'.op = "run" /\ Run) =>
              RunBuilds(Start, builds).written = RunBuilds(Start, builds).wrote
       /\ \A i \in 1..Len(builds) :
              (wlast'.op = "build" /\ BuildDirective(i)) =>
                  Build(Start, builds[i]).written = Build(Start, builds[i]).wrote]_vars

\* What run() without dry_run does over build tree d, cache g and output
\* directory o.
WetRun(d, g, o) ==
    RunBuilds([Start EXCEPT !.disk = d, !.digests = g, !.out = o, !.opt.dry_run = FALSE], builds)

\* C19: a run() with dry_run set leaves every file of the build tree,
\* every file of the output directory and every stored digest as they
\* were, so that a run() without dry_run does after it what it would have
\* done before it.
C19_DryRunChangesNothing ==
    [][(opt.dry_run /\ wlast'.op = "run" /\ Run) =>
           /\ disk' = disk
           /\ out' = out
           /\ digests' = digests
           /\ UNCHANGED <<templates, palettes, opt, builds>>
           /\ WetRun(disk', digests', out').written = WetRun(disk, digests, out).written
           /\ WetRun(disk', digests', out').disk = WetRun(disk, digests, out).disk
           /\ WetRun(disk', digests', out').digests = WetRun(disk, digests, out).digests
           /\ WetRun(disk', digests', out').out = WetRun(disk, digests, out).out]_vars

\* C19 witness: a dry run() with an output directory reported files to
\* build, over a build tree and a cache that hold an earlier build, and
\* the output directory is still empty.
C19_Witness ==
    /\ wlast.op = "run"
    /\ opt.dry_run
    /\ opt.output_dir
    /\ wlast.written # <<>>
    /\ \E p \in Paths : disk[p].exists /\ digests[p] # None
    /\ \A p \in OutPaths : ~out[p].exists

\* A run() with force set, caching enabled, not dry.
ForcedRun == opt.force /\ UseCache(opt) /\ ~opt.dry_run /\ wlast'.op = "run" /\ Run

\* The list a run() without force returns over build tree d and cache g.
UnforcedWritten(d, g) ==
    RunBuilds([Start EXCEPT !.disk = d, !.digests = g, !.opt.force = FALSE], builds).written

\* Every selected pair was reported as built, its file is on disk, and
\* every written path has the digest of a pair rendered to it.
AllRebuilt ==
    /\ Len(wlast'.written) = Cardinality(Pairs)
    /\ SeqToSet(wlast'.written) = {PathOf(x[1], x[2]) : x \in Pairs}
    /\ \A x \in Pairs : disk'[PathOf(x[1], x[2])].exists
    /\ \A p \in SeqToSet(wlast'.written) :
           /\ \E x \in Pairs : PathOf(x[1], x[2]) = p /\ digests'[p] = DigestOf(x[1], x[2])
           /\ \E x \in Pairs : PathOf(x[1], x[2]) = p
                  /\ disk'[p] = File(Render(TemplateBytesOf(x[1]), ContextBytesOf(x[1], x[2])))

OpsOf(ops, kind) == SelectSeq(ops, LAMBDA e : e.op = kind)
PathsOf(ops, kind) == [i \in 1..Len(OpsOf(ops, kind)) |-> OpsOf(ops, kind)[i].path]

\* The output paths of the selected pairs, in the order run() visits them.
RECURSIVE PairPaths(_, _)
PairPaths(i, ctxs) ==
    IF i > Len(builds) THEN <<>>
    ELSE IF ctxs = <<>> THEN (IF i = Len(builds) THEN <<>> ELSE PairPaths(i + 1, Contexts(builds[i + 1])))
    ELSE <<PathOf(i, Head(ctxs))>> \o PairPaths(i, Tail(ctxs))
RunPaths == PairPaths(1, Contexts(builds[1]))

\* A run() with no_cache made no call of the cache and left the stored
\* digests alone, and rendered every selected pair.
NoCacheRun ==
    /\ OpsOf(wlast'.ops, "get") = <<>>
    /\ OpsOf(wlast'.ops, "add") = <<>>
    /\ digests' = digests
    /\ PathsOf(wlast'.ops, "render") = RunPaths
    /\ wlast'.written = RunPaths

PackageOnly == opt.no_templates \/ opt.no_config
ExpectedTemplate(i) ==
    IF ~PackageOnly /\ templates[builds[i].template] # NoTemplate
    THEN templates[builds[i].template]
    ELSE PackageTemplates[builds[i].template]

\* The step is a build_file call for directive i and context ctx that
\* met no fault of the file system.
IsBuildFile(i, ctx) == BuildOne(i, ctx) \/ BuildOneRaises(i, ctx, "none")

\* The call changed neither the build tree nor the cache.
NothingBuilt ==
    /\ disk' = disk
    /\ digests' = digests
    /\ OpsOf(wlast'.ops, "write") = <<>>
    /\ OpsOf(wlast'.ops, "add") = <<>>

\* C22: build_file asks the template directory first and the package
\* second, and only the package with no_templates or no_config; it uses
\* the file of the template directory when both have the name and the
\* package's when only the package has it; when neither has it the call
\* raises TemplateNotFound, and neither build_file nor build of that
\* directive writes a file or adds a cache entry.
C22_TemplateLookupOrder ==
    [][/\ \A i \in 1..Len(builds) : \A ctx \in SeqToSet(Contexts(builds[i])) :
              wlast'.op \in {"build_file", "build_file-raised"} =>
                  \/ /\ wlast'.ops # <<>>
                     /\ Head(wlast'.ops).op = IF PackageOnly THEN "package" ELSE "fs"
                     /\ PackageOnly => OpsOf(wlast'.ops, "fs") = <<>>
                     /\ OpsOf(wlast'.ops, "package") # <<>> <=>
                            (PackageOnly \/ templates[builds[i].template] = NoTemplate)
                     /\ (wlast'.raised = "TemplateNotFound") <=> (ExpectedTemplate(i) = NoTemplate)
                     /\ wlast'.raised = "TemplateNotFound" => NothingBuilt
                     /\ OpsOf(wlast'.ops, "write") # <<>> =>
                            disk'[PathOf(i, ctx)].text.template = ExpectedTemplate(i)
                  \/ ~IsBuildFile(i, ctx)
       /\ \A i \in 1..Len(builds) :
              (wlast'.op = "build-raised" /\ BuildDirectiveRaises(i)
                   /\ wlast'.raised = "TemplateNotFound") =>
                  (ExpectedTemplate(i) = NoTemplate /\ NothingBuilt)]_vars

\* C22 witness: with no_templates set, build_file raised TemplateNotFound
\* for a template that only the template directory holds.
C22_Witness ==
    /\ wlast.op = "build_file-raised"
    /\ wlast.raised = "TemplateNotFound"
    /\ opt.no_templates
    /\ \E i \in 1..Len(builds) :
           /\ templates[builds[i].template] # NoTemplate
           /\ PackageTemplates[builds[i].template] = NoTemplate
    /\ OpsOf(wlast.ops, "fs") = <<>>

\* The operations of the writer that build files.
WriterCalls == {"run", "build", "build_file", "run-raised", "build-raised", "build_file-raised"}

\* C25: in every call of the writer, each cache.add comes directly after
\* the rendering and the writing of the same path; a call that raised in
\* loading the template, rendering or writing stored no digest after the
\* failure, and a build_file that raised left every stored digest as it
\* was; every digest the call stored is that of the text then on disk at
\* its path.
C25_DigestStoredAfterWrite ==
    [][wlast'.op \in WriterCalls =>
           /\ \A k \in 1..Len(wlast'.ops) : wlast'.ops[k].op = "add" =>
                  /\ k >= 3
                  /\ wlast'.ops[k - 1] = Op("write", wlast'.ops[k].path)
                  /\ wlast'.ops[k - 2] = Op("render", wlast'.ops[k].path)
           /\ wlast'.raised # "none" =>
                  /\ wlast'.ops # <<>>
                  /\ wlast'.ops[Len(wlast'.ops)].op \notin {"write", "add"}
           /\ wlast'.op = "build_file-raised" => digests' = digests
           /\ \A p \in Paths : digests'[p] # digests[p] =>
                  /\ \E k \in 1..Len(wlast'.ops) : wlast'.ops[k] = Op("add", p)
                  /\ disk'[p] = File(Render(built'[p].t, built'[p].c))
                  /\ digests'[p] = Hash(built'[p].t, built'[p].c)]_vars

\* C25 witness: the write of build_file raised after the rendering, for
\* a path whose stored digest is that of an earlier template, and the
\* stored digest is still that one.
C25_Witness ==
    /\ wlast.op = "build_file-raised"
    /\ wlast.raised = "OSError"
    /\ \E i \in 1..Len(builds) : \E ctx \in SeqToSet(Contexts(builds[i])) :
           /\ wlast.ops[Len(wlast.ops)] = Op("render", PathOf(i, ctx))
           /\ digests[PathOf(i, ctx)] # None
           /\ digests[PathOf(i, ctx)] # DigestOf(i, ctx)
           /\ disk[PathOf(i, ctx)].exists

\* No path occurs twice in a list of paths.
NoRepeat(s) == \A j, k \in 1..Len(s) : s[j] = s[k] => j = k

\* C28: in a run(), no two selected (directive, context) pairs have the
\* same build path, no file is written twice and no path has its digest
\* stored twice.
C28_NoSharedBuildPath ==
    wlast.op = "run" =>
        /\ PathsDistinct
        /\ NoRepeat(PathsOf(wlast.ops, "write"))
        /\ NoRepeat(PathsOf(wlast.ops, "add"))

\* The file of (i, ctx) is in the output directory, under the directory
\* of the directive when prefix is set, with the content of its build
\* file.
Copied(i, ctx) ==
    /\ disk'[PathOf(i, ctx)].exists
    /\ out'[<<IF opt.prefix THEN PathOf(i, ctx)[1] ELSE "", PathOf(i, ctx)[2]>>] = disk'[PathOf(i, ctx)]

RuntimeVariants(o) ==
    {[o EXCEPT !.verbose = v, !.output_dir = d, !.prefix = x] : v, d, x \in BOOLEAN}

\* The digest build_file computes for (i, ctx) under options o.
DigestUnder(o, i, ctx) ==
    Hash(EncodeTemplate(o, templates, builds[i].template),
         EncodeContext(o, palettes, ctx, builds[i].color_type))

\* C30: the digest a run() computes for every selected pair, of a
\* palette context and of the whole configuration alike, is the digest a
\* run() computes under options that differ only in verbose, output_dir
\* and prefix.
C30_DigestIgnoresRuntimeOptions ==
    wlast.op = "run" =>
        \A x \in Pairs : \A o \in RuntimeVariants(opt) :
            DigestUnder(o, x[1], x[2]) = DigestOf(x[1], x[2])

(***************************************************************************)
(* Configuration properties, checked under SpecConfig.                     *)
(***************************************************************************)
\* The entries of the palettes dict that declare the name as an alias.
Declaring(name) == {i \in 1..Len(gpalettes) : name \in SeqToSet(gpalettes[i].aliases)}
Keyed(name) == {i \in 1..Len(gpalettes) : gpalettes[i].key = name}

\* C23: get_palette(k) returns palettes[k] for every key k, get_palette(a)
\* returns p for every alias a that p declares, whatever keys and aliases
\* the other palettes have, and any other name raises KeyError.
C23_LookupByKeyOrAlias ==
    glast.op = "get_palette" =>
        /\ \A i \in Keyed(glast.name) : glast.err = "none" /\ glast.res = gpalettes[i].key
        /\ \A i \in Declaring(glast.name) : glast.err = "none" /\ glast.res = gpalettes[i].key
        /\ (Keyed(glast.name) \cup Declaring(glast.name) = {}) => glast.err = "KeyError"

(***************************************************************************)
(* Digest input properties, checked under SpecHash.                        *)
(***************************************************************************)
\* Whether sub occurs in s as a run of consecutive bytes.
Occurs(sub, s) ==
    \E k \in 1..(Len(s) - Len(sub) + 1) : SubSeq(s, k, k + Len(sub) - 1) = sub

\* Whether s is the body of a JSON string: no bare quote, every backslash
\* followed by a quote or a backslash.
RECURSIVE IsEscaped(_)
IsEscaped(s) ==
    IF s = <<>> THEN TRUE
    ELSE IF Head(s) = "\"" THEN FALSE
    ELSE IF Head(s) = "\\"
         THEN Len(s) >= 2 /\ s[2] \in {"\"", "\\"} /\ IsEscaped(Tail(Tail(s)))
    ELSE IsEscaped(Tail(s))

\* Whether c is the JSON dump of some context.
IsDump(c) ==
    /\ Len(c) >= Len(DumpOpen) + Len(DumpClose)
    /\ SubSeq(c, 1, Len(DumpOpen)) = DumpOpen
    /\ SubSeq(c, Len(c) - Len(DumpClose) + 1, Len(c)) = DumpClose
    /\ IsEscaped(SubSeq(c, Len(DumpOpen) + 1, Len(c) - Len(DumpClose)))

\* Every (template bytes, context bytes) pair that gives the input x.
Readings(x) ==
    {<<SubSeq(x, 1, k - 1), SubSeq(x, k + Len(Separator), Len(x))>> :
        k \in {j \in 1..(Len(x) - Len(Separator) + 1) :
                  /\ SubSeq(x, j, j + Len(Separator) - 1) = Separator
                  /\ IsDump(SubSeq(x, j + Len(Separator), Len(x)))}}

\* C24 as stated: the separator occurs in neither operand of _hash, and
\* the input of the hash is that of no other (template bytes, context
\* bytes) pair.
C24_SeparatorInNoOperand ==
    hlast.op = "hash" =>
        /\ ~Occurs(Separator, hlast.t)
        /\ ~Occurs(Separator, hlast.c)
        /\ Readings(hlast.input) = {<<hlast.t, hlast.c>>}

\* C24 amended: the input of the hash is that of no other (template
\* bytes, context bytes) pair whose context bytes are a JSON dump,
\* whether or not the separator occurs in an operand.
C24_InputDeterminesPair ==
    hlast.op = "hash" =>
        /\ IsDump(hlast.c)
        /\ Readings(hlast.input) = {<<hlast.t, hlast.c>>}

\* C24 witness: _hash was applied to a template file that holds the
\* separator followed by the opening of a JSON dump, and to a context
\* whose name holds the separator followed by the opening of a JSON dump.
C24_Witness ==
    /\ hlast.op = "hash"
    /\ htemplate = Separator \o DumpOpen \o <<"a">>
    /\ hname = Separator \o DumpOpen \o <<"a">>
    /\ Occurs(Separator, hlast.c)

(***************************************************************************)
(* Command properties, checked under SpecCli.                              *)
(***************************************************************************)
\* C27: config init changes its target file only when dry_run is unset
\* and the file does not exist or force is set; without force an existing
\* file stays as it was, and with dry_run the target is neither created
\* nor emptied nor rewritten.
C27_InitWritesOnlyWhenAllowed ==
    ilast.op = "config_init" =>
        LET t == InitTarget(ilast.opt) IN
        /\ ifile[t] # ilast.before[t] =>
               (~ilast.opt.dry_run /\ (~ilast.before[t].exists \/ ilast.opt.force))
        /\ (ilast.before[t].exists /\ ~ilast.opt.force) => ifile[t] = ilast.before[t]
        /\ ilast.opt.dry_run => ifile[t] = ilast.before[t]

====
